---- MODULE Spec2Model ----
(***************************************************************************)
(* Audio generation API (POST handler + generateAudioWAV) and the client   *)
(* placeholder file builder (createPlaceholderAudioFile, estimateDuration).*)
(* The page's TextToSpeechManager and createClientSideAudioBlob are separate *)
(* state machines over their own variables (TtsSpec, BlobSpec); SizeSpec    *)
(* applies the buffer size computation at the source sample rate.          *)
(*                                                                         *)
(* Representation choices                                                  *)
(*  - A JavaScript string is a sequence of runs [c |-> char code, n |->    *)
(*    repeat count]; this is lossless and lets 5000-character texts be     *)
(*    written down.  All string operations (length, trim, split, charAt)   *)
(*    are computed on the runs.                                            *)
(*  - rate, pitch and volume are carried in tenths (rate 1.0 is 10).       *)
(*  - Floating point sample arithmetic is carried in fixed point with Q    *)
(*    units per 1.0, rounded to nearest after each product; Math.sin is    *)
(*    Bhaskara's rational approximation on a turn divided in PhaseSteps.   *)
(*  - The source fixes sampleRate = 44100 (SourceSampleRate).  The sample  *)
(*    loop is explored one iteration per step at the reduced rate          *)
(*    sampleRate below; every size is computed from sampleRate exactly as  *)
(*    the source computes it.                                              *)
(***************************************************************************)
EXTENDS Integers, Sequences, FiniteSets, TLC

\* ---------------------------------------------------------------- bounds
sampleRate == 40
MaxLen == 2
RandomLevels == 3
MaxRequests == 2
MaxUtterances == 3
Q == 1000
PhaseSteps == 360

\* ------------------------------------------------------ program constants
SourceSampleRate == 44100
MaxTextLength == 5000
baseFreq == 200
numChannels == 1
bitsPerSample == 16
HeaderSize == 44
MinDuration == 2
PlaceholderMinDuration == 1
WordsPerMinuteBase == 155
Int16Min == -32768
Int16Max == 32767

\* ------------------------------------------------------------ arithmetic
Max(a, b) == IF a >= b THEN a ELSE b
Min(a, b) == IF a <= b THEN a ELSE b

\* Math.ceil of the rational n/d, d > 0
Ceil(n, d) == -((-n) \div d)

\* Math.floor of the rational n/d, d > 0
Floor(n, d) == n \div d

\* Math.round of the rational n/d, d > 0 (ties go up)
Round(n, d) == (2 * n + d) \div (2 * d)

\* truncation toward zero of the rational n/d (ToInt16 of a Number)
Trunc(n, d) == IF n >= 0 THEN n \div d ELSE -((-n) \div d)

\* DataView.setInt16: the stored value is the argument modulo 2^16
ToInt16(v) == ((v + 32768) % 65536) - 32768

\* DataView.setUint32 of a value in 0 .. 2^31-1 stores it unchanged
ToUint32(v) == v

\* ---------------------------------------------------------------- strings
WhiteSpace == {9, 10, 11, 12, 13, 32, 160, 5760, 8232, 8233, 8239, 8287, 12288, 65279}
    \cup (8192 .. 8202)

IsWhiteSpace(c) == c \in WhiteSpace

Vowels == {97, 101, 105, 111, 117, 65, 69, 73, 79, 85}

\* a string literal, one run per character
Str(codes) == [k \in 1 .. Len(codes) |-> [c |-> codes[k], n |-> 1]]

\* n copies of character c
Rep(c, n) == << [c |-> c, n |-> n] >>

RECURSIVE JsLength(_)
JsLength(s) == IF s = << >> THEN 0 ELSE Head(s).n + JsLength(Tail(s))

RECURSIVE TrimStart(_)
TrimStart(s) ==
    IF s = << >> THEN << >>
    ELSE IF IsWhiteSpace(Head(s).c) THEN TrimStart(Tail(s)) ELSE s

RECURSIVE TrimEnd(_)
TrimEnd(s) ==
    IF s = << >> THEN << >>
    ELSE IF IsWhiteSpace(s[Len(s)].c) THEN TrimEnd(SubSeq(s, 1, Len(s) - 1)) ELSE s

\* String.prototype.trim
Trim(s) == TrimEnd(TrimStart(s))

\* String.prototype.split(/\s+/): the tokens between maximal whitespace runs,
\* an empty token before a leading and after a trailing separator
RECURSIVE SplitScan(_, _, _, _)
SplitScan(s, cur, inSep, tokens) ==
    IF s = << >> THEN Append(tokens, cur)
    ELSE IF IsWhiteSpace(Head(s).c)
         THEN IF inSep THEN SplitScan(Tail(s), cur, TRUE, tokens)
                       ELSE SplitScan(Tail(s), << >>, TRUE, Append(tokens, cur))
         ELSE SplitScan(Tail(s), Append(cur, Head(s)), FALSE, tokens)

SplitWhitespace(s) == SplitScan(s, << >>, FALSE, << >>)

\* String.prototype.charAt / charCodeAt for an index inside the string
RECURSIVE CharCodeAt(_, _)
CharCodeAt(s, idx) ==
    IF idx < Head(s).n THEN Head(s).c ELSE CharCodeAt(Tail(s), idx - Head(s).n)

\* ------------------------------------------------------- duration (server)
\* a word count that keeps the empty tokens
WordCountUnfiltered(text) == Len(SplitWhitespace(text))

\* text.split(/\s+/).filter(word => word.length > 0).length
WordCount(text) ==
    Len(SelectSeq(SplitWhitespace(text), LAMBDA w : JsLength(w) > 0))

\* a duration without the two second floor
DurationNoFloor(text, rate) ==
    Ceil(WordCount(text) * 60 * 10, WordsPerMinuteBase * rate)

\* Math.ceil(Math.max(2, (wordCount / (155 * rate)) * 60)), rate in tenths
DurationOfWords(wordCount, rate) ==
    LET num == wordCount * 60 * 10
        den == WordsPerMinuteBase * rate
        baseDuration == IF num < MinDuration * den THEN << MinDuration, 1 >>
                                                   ELSE << num, den >>
    IN  Ceil(baseDuration[1], baseDuration[2])

\* lines 65-68 for the text argument of generateAudioWAV
Duration(text, rate) == DurationOfWords(WordCount(text), rate)

\* ------------------------------------------------------- duration (client)
\* estimateDuration: text.split(/\s+/).length words, as the rational <<n, d>>
estimateDuration(text, rate) ==
    << Len(SplitWhitespace(text)) * 60 * 10, WordsPerMinuteBase * rate >>

\* Math.max(1, Math.ceil(estimateDuration(text, settings.rate)))
PlaceholderDuration(text, rate) ==
    LET e == estimateDuration(text, rate)
    IN  Max(PlaceholderMinDuration, Ceil(e[1], e[2]))

\* ------------------------------------------------------------- synthesis
\* Math.sin(2 * Math.PI * turns) for turns = p / PhaseSteps, in Q units
Sin(p) ==
    LET a2 == 2 * p
        x  == IF a2 < PhaseSteps THEN a2 ELSE a2 - PhaseSteps
        v  == (Q * 16 * x * (PhaseSteps - x))
                 \div (5 * PhaseSteps * PhaseSteps - 4 * x * (PhaseSteps - x))
    IN  IF a2 < PhaseSteps THEN v ELSE -v

\* Math.sin(2 * Math.PI * freq * time), freq = fnum / fden, time = i / sampleRate
SinAt(fnum, fden, i) ==
    LET d == fden * sampleRate
        r == ((fnum % d) * i) % d
    IN  Sin(Floor(r * PhaseSteps, d))

\* an index that cycles through the text, as the placeholder's does
CharIndexModulo(i, n, text) == i % JsLength(text)

\* Math.floor(progress * text.length), progress = i / numSamples
CharIndex(i, n, text) == Floor(i * JsLength(text), n)

\* a classification without the arm for spaces
BranchNoSpace(char) == IF char \in Vowels THEN "vowel" ELSE "consonant"

\* which arm of the if / else if / else at lines 126-146 handles the character
Branch(char) ==
    IF char = 32 THEN "space"
    ELSE IF char \in Vowels THEN "vowel"
    ELSE "consonant"

\* Math.random() is one generator for the whole server process.  Its state is
\* a position on a cycle of RandomLevels values; the value returned in state
\* s is s / RandomLevels and the call advances the state.
RandomNext(s) == (s + 1) % RandomLevels

\* a sample of every character but the space reads the random source
DrawsNoiseForVowels(char) == char # 32

\* Math.random() is called in the else arm only (line 143)
DrawsNoise(char) == ~(char = 32) /\ ~(char \in Vowels)

\* (Math.random() - 0.5) * 0.3 for the draw k / RandomLevels, in Q units
Noise(k) == Round((2 * k - RandomLevels) * 3 * Q, 20 * RandomLevels)

\* the waveform value of lines 115-146, in Q units
Waveform(char, pitch, i, k) ==
    LET baseCharFreq == baseFreq + (char % 300)
    IN  IF Branch(char) = "space" THEN 0
        ELSE IF Branch(char) = "vowel" THEN
            LET f1 == baseCharFreq * (20 + pitch)
            IN  Round(  6 * SinAt(f1, 20, i)
                      + 3 * SinAt(f1 * 21, 200, i)
                      + 1 * SinAt(f1 * 32, 200, i), 10)
        ELSE
            LET f == baseCharFreq * (150 + 8 * pitch)
            IN  Round(7 * SinAt(f, 100, i), 10) + Noise(k)

\* Math.min(0.1, duration * 0.05) as the rational <<n, d>>
FadeTime(duration) == IF duration < 2 THEN << duration, 20 >> ELSE << 1, 10 >>

\* an envelope whose fade-out arm is missing
EnvelopeNoFadeOut(i, duration) ==
    LET f == FadeTime(duration)
    IN  IF i * f[2] < f[1] * sampleRate
            THEN << i * f[2], f[1] * sampleRate >>
        ELSE << 1, 1 >>

\* the envelope of lines 149-156 as the rational <<n, d>>, time = i / sampleRate
Envelope(i, duration) ==
    LET f == FadeTime(duration)
    IN  IF i * f[2] < f[1] * sampleRate
            THEN << i * f[2], f[1] * sampleRate >>
        ELSE IF i * f[2] > (duration * f[2] - f[1]) * sampleRate
            THEN << (duration * sampleRate - i) * f[2], f[1] * sampleRate >>
        ELSE << 1, 1 >>

\* sample *= 1 + (rate - 1) * 0.2
RateModulation(sample, rate) == Round(sample * (40 + rate), 50)

\* sample *= volume * envelope * 0.3
ApplyVolume(sample, volume, env) ==
    Round(sample * volume * env[1] * 3, 10 * env[2] * 10)

\* a conversion scaled to the unsigned 16-bit range and left unclamped
IntSampleUnclamped(sample) == Round(sample * 65535, Q)

\* Math.max(-32768, Math.min(32767, Math.round(sample * 32767)))
IntSample(sample) ==
    Max(Int16Min, Min(Int16Max, Round(sample * Int16Max, Q)))

\* an offset that forgets the two bytes per sample
WriteOffsetUnscaled(idx) == HeaderSize + idx

\* byte offset of sample idx: view.setInt16(44 + i * 2, ...)
WriteOffset(idx) == HeaderSize + idx * 2

\* one pass through the loop body: the value handed to view.setInt16
SampleValue(text, settings, duration, n, i, k) ==
    LET char == CharCodeAt(text, CharIndex(i, n, text))
        w    == Waveform(char, settings.pitch, i, k)
        m    == RateModulation(w, settings.rate)
        v    == ApplyVolume(m, settings.volume, Envelope(i, duration))
    IN  IntSample(v)

\* ---------------------------------------------------------------- inputs
Alphabet == {97, 98, 32, 9}

RECURSIVE CodesUpTo(_)
CodesUpTo(n) ==
    IF n = 0 THEN { << >> }
    ELSE LET shorter == CodesUpTo(n - 1)
         IN  shorter \cup { Append(w, ch) : w \in shorter, ch \in Alphabet }

\* "Hello world"
HelloWorld == Str(<< 72, 101, 108, 108, 111, 32, 119, 111, 114, 108, 100 >>)

Strings ==
    { Str(w) : w \in CodesUpTo(MaxLen) }
    \cup { HelloWorld,
           Rep(97, MaxTextLength),
           Rep(32, 1) \o Rep(97, MaxTextLength),
           Rep(97, MaxTextLength + 1) }

\* the `text` member of the JSON body: absent, a number, or a string
TextValues ==
    { [kind |-> "undefined", num |-> 0, str |-> << >>],
      [kind |-> "number", num |-> 42, str |-> << >>],
      [kind |-> "number", num |-> 0, str |-> << >>] }
    \cup { [kind |-> "string", num |-> 0, str |-> t] : t \in Strings }

\* rate, pitch, volume of the JSON body in tenths; << >> is an omitted member
Profiles ==
    { [rate |-> << >>,     pitch |-> << >>,    volume |-> << >>],
      [rate |-> << 5 >>,   pitch |-> << 15 >>, volume |-> << 5 >>],
      [rate |-> << 100 >>, pitch |-> << 20 >>, volume |-> << 10 >>],
      [rate |-> << 500 >>, pitch |-> << 50 >>, volume |-> << 30 >>],
      [rate |-> << -10 >>, pitch |-> << -10 >>, volume |-> << -10 >>],
      [rate |-> << 1 >>,   pitch |-> << 0 >>,  volume |-> << 0 >>] }

Bodies ==
    { [text |-> t, rate |-> p.rate, pitch |-> p.pitch, volume |-> p.volume] :
          t \in TextValues, p \in Profiles }

\* { rate = 1, pitch = 1, volume = 1 } = body: the default of an omitted member
Default(member) == IF member = << >> THEN 10 ELSE member[1]

\* ----------------------------------------------------------- POST helpers
\* !text || typeof text !== 'string' || text.trim().length === 0
TextRejected(t) ==
    \/ t.kind = "undefined"
    \/ t.kind = "number"
    \/ JsLength(t.str) = 0
    \/ JsLength(Trim(t.str)) = 0

\* a handler without the length check
TextTooLongNever(t) == FALSE

\* a length check that also rejects a text of exactly 5000 characters
TextTooLongInclusive(t) == JsLength(t.str) >= MaxTextLength

\* text.length > 5000
TextTooLong(t) == JsLength(t.str) > MaxTextLength

\* Math.max(0.1, Math.min(10, rate))
NormalizeRate(rate) == Max(1, Min(100, rate))

\* a pitch clamp without the upper limit
NormalizePitchNoUpper(pitch) == Max(0, pitch)

\* Math.max(0, Math.min(2, pitch))
NormalizePitch(pitch) == Max(0, Min(20, pitch))

\* Math.max(0, Math.min(1, volume))
NormalizeVolume(volume) == Max(0, Min(10, volume))

\* a header that stores the whole file size as the chunk size
ChunkSizeWholeFile(fileSize) == ToUint32(fileSize)

\* view.setUint32(4, fileSize - 8, true)
ChunkSize(fileSize) == ToUint32(fileSize - 8)

\* a data size that forgets the two bytes of a sample
DataSizeOneByte(n) == n * numChannels

\* const dataSize = numSamples * numChannels * (bitsPerSample / 8)
DataSize(n) == n * numChannels * (bitsPerSample \div 8)

\* const fileSize = 44 + dataSize
FileSize(dataSize) == HeaderSize + dataSize

\* the 44-byte header written at lines 87-104 into a buffer of fileSize bytes
\* for the sample rate sr
WavHeaderAt(sr, fileSize, dataSize) ==
    [ byteLength    |-> fileSize,
      chunkId       |-> "RIFF",
      chunkSize     |-> ChunkSize(fileSize),
      format        |-> "WAVE",
      subchunk1Id   |-> "fmt ",
      subchunk1Size |-> 16,
      audioFormat   |-> 1,
      channels      |-> numChannels,
      sampleRate    |-> sr,
      byteRate      |-> sr * numChannels * (bitsPerSample \div 8),
      blockAlign    |-> numChannels * (bitsPerSample \div 8),
      bitsPerSample |-> bitsPerSample,
      subchunk2Id   |-> "data",
      subchunk2Size |-> ToUint32(dataSize) ]

WavHeader(fileSize, dataSize) == WavHeaderAt(sampleRate, fileSize, dataSize)

NoBuffer == WavHeader(0, 0)
\* no body has been parsed
NoBody == [text |-> [kind |-> "none", num |-> 0, str |-> << >>],
           rate |-> << >>, pitch |-> << >>, volume |-> << >>]
NoSettings == [rate |-> 0, pitch |-> 0, volume |-> 0]
NoResponse == [status |-> 0, error |-> "", contentLength |-> 0]

\* ------------------------------------------------------------------ state
VARIABLES
    pc,          \* "idle", "loop", "responded", "phLoop", "phDone"
    body,        \* the parsed JSON body of the request being served
    response,    \* the NextResponse returned by POST
    calls,       \* number of invocations of generateAudioWAV
    text,        \* the text argument of the running function
    settings,    \* the settings argument of the running function
    wordCount,   \* const wordCount
    duration,    \* const duration
    numSamples,  \* const numSamples
    buffer,      \* the ArrayBuffer: its byteLength and header fields
    i,           \* the loop variable
    charIndex,   \* index into text used by the last iteration
    mapped,      \* every index into text the loop has used
    writes,      \* number of view.setInt16 calls made by the loop
    offsets,     \* byte offsets the loop has written
    branch,      \* arm taken by the last iteration
    intSample,   \* value handed to the last view.setInt16
    stored,      \* 16-bit value the last view.setInt16 left in the buffer
    randomCalls, \* number of Math.random() calls made by the loop
    envelope,    \* envelope of the last iteration, the rational <<n, d>>
    rng,         \* state of the Math.random() generator of the process
    seed,        \* state of the generator when the process started
    served       \* number of requests the process has answered

\* the fields of the TextToSpeechManager of the page and the utterances it
\* has handed to window.speechSynthesis
VARIABLES
    isPlaying,   \* private isPlaying
    isPaused,    \* private isPaused
    utterance,   \* private utterance: index of the utterance, 0 for null
    uttState,    \* per utterance: "queued", "started" or "done"
    promise      \* per speak() call: "pending", "resolved" or "rejected"

serverVars == << pc, body, response, calls, text, settings, wordCount, duration,
                 numSamples, buffer, i, charIndex, mapped, writes, offsets,
                 branch, intSample, stored, randomCalls, envelope, rng, seed,
                 served >>
ttsVars == << isPlaying, isPaused, utterance, uttState, promise >>

\* the closure of one createClientSideAudioBlob call, its recorder, its
\* utterance and its two timers
VARIABLES
    blobPromise, \* "none", "pending", "audio", "placeholder" or "rejected"
    recorder,    \* mediaRecorder.state: "none", "inactive" or "recording"
    recEvents,   \* events a stopped recorder still owes: "none", "data", "stop"
    hasStarted,  \* let hasStarted
    chunks,      \* chunks.length
    blobUtt,     \* the utterance: "none", "queued", "started" or "done"
    endTimer,    \* the timer set by utterance.onend: "unset", "armed", "fired"
    safetyTimer, \* the safety timeout: "unset", "armed", "fired"
    contextOpen  \* the AudioContext exists and close() was not called

blobVars == << blobPromise, recorder, recEvents, hasStarted, chunks, blobUtt,
              endTimer, safetyTimer, contextOpen >>
clientVars == << ttsVars, blobVars >>

vars == << serverVars, clientVars >>

loopVars == << i, charIndex, mapped, writes, offsets, branch, intSample, stored,
               randomCalls, envelope, rng >>
procVars == << seed, served >>
callVars == << text, settings, wordCount, duration, numSamples, buffer >>

\* new TextToSpeechManager(): the field initialisers at lines 357-359
TtsConstructed ==
    /\ isPlaying = FALSE
    /\ isPaused = FALSE
    /\ utterance = 0
    /\ uttState = << >>
    /\ promise = << >>

\* before createClientSideAudioBlob is called
BlobNotCalled ==
    /\ blobPromise = "none"
    /\ recorder = "none"
    /\ recEvents = "none"
    /\ hasStarted = FALSE
    /\ chunks = 0
    /\ blobUtt = "none"
    /\ endTimer = "unset"
    /\ safetyTimer = "unset"
    /\ contextOpen = FALSE

Init ==
    /\ TtsConstructed
    /\ BlobNotCalled
    /\ pc = "idle"
    /\ body = NoBody
    /\ response = NoResponse
    /\ calls = 0
    /\ text = << >>
    /\ settings = NoSettings
    /\ wordCount = 0
    /\ duration = 0
    /\ numSamples = 0
    /\ buffer = NoBuffer
    /\ i = 0
    /\ charIndex = 0
    /\ mapped = {}
    /\ writes = 0
    /\ offsets = {}
    /\ branch = "none"
    /\ intSample = 0
    /\ stored = 0
    /\ randomCalls = 0
    /\ envelope = << 1, 1 >>
    /\ seed \in 0 .. RandomLevels - 1
    /\ rng = seed
    /\ served = 0

\* ------------------------------------------------------------------- POST
\* request.json() throws or the body cannot be destructured: the catch block
PostThrows ==
    /\ pc = "idle"
    /\ response' = [status |-> 500, error |-> "Failed to generate audio file",
                    contentLength |-> 0]
    /\ pc' = "responded"
    /\ served' = served + 1
    /\ UNCHANGED << body, calls, callVars, loopVars, seed >>
    /\ UNCHANGED clientVars

\* lines 9-14
PostRejectText(b) ==
    /\ pc = "idle"
    /\ TextRejected(b.text)
    /\ body' = b
    /\ response' = [status |-> 400,
                    error |-> "Text is required and must be a non-empty string",
                    contentLength |-> 0]
    /\ pc' = "responded"
    /\ served' = served + 1
    /\ UNCHANGED << calls, callVars, loopVars, seed >>
    /\ UNCHANGED clientVars

\* lines 16-21
PostRejectLength(b) ==
    /\ pc = "idle"
    /\ ~TextRejected(b.text)
    /\ TextTooLong(b.text)
    /\ body' = b
    /\ response' = [status |-> 400,
                    error |-> "Text must be less than 5000 characters",
                    contentLength |-> 0]
    /\ pc' = "responded"
    /\ served' = served + 1
    /\ UNCHANGED << calls, callVars, loopVars, seed >>
    /\ UNCHANGED clientVars

\* lines 23-34 and 63-104: normalise, enter generateAudioWAV, size the buffer
\* and write the header
PostGenerate(b) ==
    /\ pc = "idle"
    /\ ~TextRejected(b.text)
    /\ ~TextTooLong(b.text)
    /\ body' = b
    /\ calls' = calls + 1
    /\ text' = b.text.str
    /\ settings' = [rate   |-> NormalizeRate(Default(b.rate)),
                    pitch  |-> NormalizePitch(Default(b.pitch)),
                    volume |-> NormalizeVolume(Default(b.volume))]
    /\ wordCount' = WordCount(text')
    /\ duration' = Duration(text', settings'.rate)
    /\ numSamples' = sampleRate * duration'
    /\ LET dataSize == DataSize(numSamples')
           fileSize == FileSize(dataSize)
       IN  buffer' = WavHeader(fileSize, dataSize)
    /\ pc' = "loop"
    /\ UNCHANGED << response, loopVars, procVars >>
    /\ UNCHANGED clientVars

\* one iteration of the loop at lines 110-168
LoopStep ==
    /\ pc = "loop"
    /\ i < numSamples
    /\ charIndex' = CharIndex(i, numSamples, text)
    /\ mapped' = mapped \cup { charIndex' }
    /\ LET char == CharCodeAt(text, charIndex')
       IN  /\ branch' = Branch(char)
           /\ intSample' = SampleValue(text, settings, duration, numSamples, i, rng)
           /\ randomCalls' = IF DrawsNoise(char) THEN randomCalls + 1 ELSE randomCalls
           /\ rng' = IF DrawsNoise(char) THEN RandomNext(rng) ELSE rng
    /\ envelope' = Envelope(i, duration)
    /\ stored' = ToInt16(intSample')
    /\ offsets' = offsets \cup { WriteOffset(i) }
    /\ writes' = writes + 1
    /\ i' = i + 1
    /\ UNCHANGED << pc, body, response, calls, callVars, procVars >>
    /\ UNCHANGED clientVars

\* loop exit, return buffer, lines 36-45: the 200 response
PostRespond ==
    /\ pc = "loop"
    /\ ~(i < numSamples)
    /\ response' = [status |-> 200, error |-> "", contentLength |-> buffer.byteLength]
    /\ pc' = "responded"
    /\ served' = served + 1
    /\ UNCHANGED << body, calls, callVars, loopVars, seed >>
    /\ UNCHANGED clientVars

\* the process takes the next request: the locals of the finished call are gone
NextRequest ==
    /\ pc = "responded"
    /\ served < MaxRequests
    /\ pc' = "idle"
    /\ body' = NoBody
    /\ response' = NoResponse
    /\ calls' = 0
    /\ text' = << >>
    /\ settings' = NoSettings
    /\ wordCount' = 0
    /\ duration' = 0
    /\ numSamples' = 0
    /\ buffer' = NoBuffer
    /\ i' = 0
    /\ charIndex' = 0
    /\ mapped' = {}
    /\ writes' = 0
    /\ offsets' = {}
    /\ branch' = "none"
    /\ intSample' = 0
    /\ stored' = 0
    /\ randomCalls' = 0
    /\ envelope' = << 1, 1 >>
    /\ UNCHANGED << rng, seed, served >>
    /\ UNCHANGED clientVars

\* ------------------------------------------- createPlaceholderAudioFile
\* arguments the client passes: a text with something to speak, and the
\* rate and volume of the voice settings, in tenths
PlaceholderTexts == { t \in Strings : JsLength(Trim(t)) > 0 }
PlaceholderRates == {1, 5, 10, 25, 100}
PlaceholderVolumes == {0, 5, 10}

\* the header written at lines 600-612 into a buffer of bufferSize bytes
PlaceholderHeader(bufferSize, n) ==
    [ byteLength    |-> bufferSize,
      chunkId       |-> "RIFF",
      chunkSize     |-> ToUint32(bufferSize - 8),
      format        |-> "WAVE",
      subchunk1Id   |-> "fmt ",
      subchunk1Size |-> 16,
      audioFormat   |-> 1,
      channels      |-> numChannels,
      sampleRate    |-> sampleRate,
      byteRate      |-> sampleRate * numChannels * 2,
      blockAlign    |-> numChannels * 2,
      bitsPerSample |-> 16,
      subchunk2Id   |-> "data",
      subchunk2Size |-> ToUint32(n * 2) ]

\* byte offset of sample idx: view.setInt16(44 + i * 2, ...)
PlaceholderOffset(idx) == HeaderSize + idx * 2

\* Math.sin(2 * Math.PI * frequency * i / sampleRate) * amplitude * 32767,
\* converted by view.setInt16 (truncation, then modulo 2^16)
PlaceholderSample(t, volume, idx) ==
    LET frequency == 440 + (CharCodeAt(t, idx % JsLength(t)) % 200)
    IN  Trunc(SinAt(frequency, 1, idx) * volume * Int16Max, Q * 100)

\* lines 583-612: size the buffer and write the header.  The placeholder is
\* built by the page, not by the server process: it is explored from the
\* state in which the server has served nothing
PlaceholderStart(t, rate, volume) ==
    /\ pc = "idle"
    /\ served = 0
    /\ text' = t
    /\ settings' = [rate |-> rate, pitch |-> 10, volume |-> volume]
    /\ wordCount' = Len(SplitWhitespace(t))
    /\ duration' = PlaceholderDuration(t, rate)
    /\ numSamples' = sampleRate * duration'
    /\ LET bufferSize == HeaderSize + numSamples' * 2
       IN  buffer' = PlaceholderHeader(bufferSize, numSamples')
    /\ pc' = "phLoop"
    /\ UNCHANGED << body, response, calls, loopVars, procVars >>
    /\ UNCHANGED clientVars

\* one iteration of the loop at lines 615-621
PlaceholderStep ==
    /\ pc = "phLoop"
    /\ i < numSamples
    /\ charIndex' = i % JsLength(text)
    /\ intSample' = PlaceholderSample(text, settings.volume, i)
    /\ stored' = ToInt16(intSample')
    /\ offsets' = offsets \cup { PlaceholderOffset(i) }
    /\ writes' = writes + 1
    /\ i' = i + 1
    /\ UNCHANGED << pc, body, response, calls, callVars, mapped, branch,
                    randomCalls, envelope, rng, procVars >>
    /\ UNCHANGED clientVars

\* loop exit and return new Blob([buffer]) at line 623
PlaceholderReturn ==
    /\ pc = "phLoop"
    /\ ~(i < numSamples)
    /\ pc' = "phDone"
    /\ UNCHANGED << body, response, calls, callVars, loopVars, procVars >>
    /\ UNCHANGED clientVars

\* ---------------------------------------------------------- specification
Next ==
    \/ PostThrows
    \/ \E b \in Bodies : PostRejectText(b)
    \/ \E b \in Bodies : PostRejectLength(b)
    \/ \E b \in Bodies : PostGenerate(b)
    \/ LoopStep
    \/ PostRespond
    \/ NextRequest
    \/ \E t \in PlaceholderTexts, r \in PlaceholderRates, v \in PlaceholderVolumes :
          PlaceholderStart(t, r, v)
    \/ PlaceholderStep
    \/ PlaceholderReturn

Spec == Init /\ [][Next]_vars

\* ------------------------------------ buffer sizes at the source sample rate
\* the largest word count of an accepted text: words of one character
\* separated by one whitespace character, in at most MaxTextLength characters
MaxWords == (MaxTextLength + 1) \div 2

\* generateAudioWAV is entered with a text of wordCount words
SizeInit ==
    /\ TtsConstructed
    /\ BlobNotCalled
    /\ pc = "idle"
    /\ body = NoBody
    /\ response = NoResponse
    /\ calls = 0
    /\ text = << >>
    /\ settings = NoSettings
    /\ wordCount \in 1 .. MaxWords
    /\ duration = 0
    /\ numSamples = 0
    /\ buffer = NoBuffer
    /\ i = 0
    /\ charIndex = 0
    /\ mapped = {}
    /\ writes = 0
    /\ offsets = {}
    /\ branch = "none"
    /\ intSample = 0
    /\ stored = 0
    /\ randomCalls = 0
    /\ envelope = << 1, 1 >>
    /\ seed = 0
    /\ rng = 0
    /\ served = 0

\* lines 23-27 and 63-104 with sampleRate = 44100: normalise the settings,
\* size the buffer and write the header
SizeGenerate(p) ==
    /\ pc = "idle"
    /\ calls' = calls + 1
    /\ settings' = [rate   |-> NormalizeRate(Default(p.rate)),
                    pitch  |-> NormalizePitch(Default(p.pitch)),
                    volume |-> NormalizeVolume(Default(p.volume))]
    /\ duration' = DurationOfWords(wordCount, settings'.rate)
    /\ numSamples' = SourceSampleRate * duration'
    /\ LET dataSize == DataSize(numSamples')
           fileSize == FileSize(dataSize)
       IN  buffer' = WavHeaderAt(SourceSampleRate, fileSize, dataSize)
    /\ pc' = "sized"
    /\ UNCHANGED << body, response, text, wordCount, loopVars, procVars >>
    /\ UNCHANGED clientVars

SizeNext == \E p \in Profiles : SizeGenerate(p)

SizeSpec == SizeInit /\ [][SizeNext]_vars

\* ---------------------------------------------------- TextToSpeechManager
\* The page calls speak, pause, resume and stop; window.speechSynthesis
\* calls the handlers speak() put on an utterance.  An utterance fires
\* onstart at most once and then onend or onerror once; synth.cancel() does
\* not take the handlers off an utterance, so the events of a cancelled or
\* replaced utterance may still arrive, at any later time.

\* a pause() that sets the flag whatever isPlaying is
PauseAppliesWhenIdle(playing, paused) == ~paused

\* if (this.isPlaying && !this.isPaused)
PauseApplies(playing, paused) == playing /\ ~paused

\* getState()
getState ==
    [ isPlaying |-> isPlaying,
      isPaused  |-> isPaused,
      isIdle    |-> ~isPlaying /\ ~isPaused ]

\* the server side of the model is not running
ServerIdle ==
    /\ pc = "idle"
    /\ UNCHANGED serverVars

\* speak(options), lines 386-413: stop() when playing, then a new utterance
\* with its three handlers is handed to synth.speak
Speak ==
    /\ Len(uttState) < MaxUtterances
    /\ isPlaying' = FALSE
    /\ isPaused' = IF isPlaying THEN FALSE ELSE isPaused
    /\ uttState' = Append(uttState, "queued")
    /\ promise' = Append(promise, "pending")
    /\ utterance' = Len(uttState')
    /\ ServerIdle
    /\ UNCHANGED blobVars

\* pause(), lines 416-421
Pause ==
    /\ PauseApplies(isPlaying, isPaused)
    /\ isPaused' = TRUE
    /\ UNCHANGED << isPlaying, utterance, uttState, promise >>
    /\ ServerIdle
    /\ UNCHANGED blobVars

\* resume(), lines 424-429
Resume ==
    /\ isPaused
    /\ isPaused' = FALSE
    /\ UNCHANGED << isPlaying, utterance, uttState, promise >>
    /\ ServerIdle
    /\ UNCHANGED blobVars

\* stop(), lines 432-436
Stop ==
    /\ isPlaying' = FALSE
    /\ isPaused' = FALSE
    /\ UNCHANGED << utterance, uttState, promise >>
    /\ ServerIdle
    /\ UNCHANGED blobVars

\* utterance.onstart of utterance u, lines 394-397
OnStart(u) ==
    /\ uttState[u] = "queued"
    /\ uttState' = [uttState EXCEPT ![u] = "started"]
    /\ isPlaying' = TRUE
    /\ isPaused' = FALSE
    /\ UNCHANGED << utterance, promise >>
    /\ ServerIdle
    /\ UNCHANGED blobVars

\* utterance.onend of utterance u, lines 399-403
OnEnd(u) ==
    /\ uttState[u] \in {"queued", "started"}
    /\ uttState' = [uttState EXCEPT ![u] = "done"]
    /\ isPlaying' = FALSE
    /\ isPaused' = FALSE
    /\ promise' = [promise EXCEPT ![u] = "resolved"]
    /\ UNCHANGED utterance
    /\ ServerIdle
    /\ UNCHANGED blobVars

\* utterance.onerror of utterance u, lines 405-409
OnError(u) ==
    /\ uttState[u] \in {"queued", "started"}
    /\ uttState' = [uttState EXCEPT ![u] = "done"]
    /\ isPlaying' = FALSE
    /\ isPaused' = FALSE
    /\ promise' = [promise EXCEPT ![u] = "rejected"]
    /\ UNCHANGED utterance
    /\ ServerIdle
    /\ UNCHANGED blobVars

TtsNext ==
    \/ Speak
    \/ Pause
    \/ Resume
    \/ Stop
    \/ \E u \in 1 .. Len(uttState) : OnStart(u)
    \/ \E u \in 1 .. Len(uttState) : OnEnd(u)
    \/ \E u \in 1 .. Len(uttState) : OnError(u)

TtsSpec == Init /\ [][TtsNext]_vars

\* ---------------------------------------------- createClientSideAudioBlob
\* The executor runs once; afterwards the browser calls the handlers of the
\* utterance and of the recorder and fires the two timers, in any order.
\* The utterance fires onstart at most once and then onend or onerror once.
\* mediaRecorder.stop() and a recorder error leave the recorder inactive and
\* owing a dataavailable event followed by a stop event.

\* resolve(v) on a promise in state p: only the first settlement counts
Resolve(p, v) == IF p = "pending" THEN v ELSE p

\* the server side and the manager are not running
OnlyBlob ==
    /\ ServerIdle
    /\ UNCHANGED ttsVars

\* the executor, lines 485-578.  env = "throws": a constructor or call of the
\* try block throws and the catch block resolves; "noRecorder": the check at
\* line 492 fails; "ok": the recorder and the utterance are set up, the
\* utterance is handed to speechSynthesis and the safety timeout is set
BlobCreate(env) ==
    /\ blobPromise = "none"
    /\ blobPromise' = IF env = "ok" THEN "pending" ELSE "placeholder"
    /\ contextOpen' = (env # "throws")
    /\ recorder' = IF env = "ok" THEN "inactive" ELSE recorder
    /\ blobUtt' = IF env = "ok" THEN "queued" ELSE blobUtt
    /\ safetyTimer' = IF env = "ok" THEN "armed" ELSE safetyTimer
    /\ UNCHANGED << recEvents, hasStarted, chunks, endTimer >>
    /\ OnlyBlob

\* utterance.onstart, lines 533-543; startOk = FALSE: mediaRecorder.start()
\* throws
UttStart(startOk) ==
    /\ blobUtt = "queued"
    /\ blobUtt' = "started"
    /\ hasStarted' = TRUE
    /\ IF hasStarted
           THEN UNCHANGED << recorder, blobPromise >>
       ELSE IF startOk /\ recorder = "inactive"
           THEN recorder' = "recording" /\ UNCHANGED blobPromise
       ELSE /\ blobPromise' = Resolve(blobPromise, "placeholder")
            /\ UNCHANGED recorder
    /\ UNCHANGED << recEvents, chunks, endTimer, safetyTimer, contextOpen >>
    /\ OnlyBlob

\* utterance.onend, lines 545-553: sets the one second timer
UttEnd ==
    /\ blobUtt \in {"queued", "started"}
    /\ blobUtt' = "done"
    /\ endTimer' = "armed"
    /\ UNCHANGED << blobPromise, recorder, recEvents, hasStarted, chunks,
                    safetyTimer, contextOpen >>
    /\ OnlyBlob

\* utterance.onerror, lines 555-560
UttError ==
    /\ blobUtt \in {"queued", "started"}
    /\ blobUtt' = "done"
    /\ recorder' = IF recorder = "recording" THEN "inactive" ELSE recorder
    /\ recEvents' = IF recorder = "recording" THEN "data" ELSE recEvents
    /\ blobPromise' = Resolve(blobPromise, "placeholder")
    /\ UNCHANGED << hasStarted, chunks, endTimer, safetyTimer, contextOpen >>
    /\ OnlyBlob

\* the body shared by the two timer callbacks, lines 546-551 and 567-571
TimerBody ==
    /\ recorder' = IF recorder = "recording" THEN "inactive" ELSE recorder
    /\ recEvents' = IF recorder = "recording" THEN "data" ELSE recEvents
    /\ blobPromise' = IF recorder # "recording" /\ ~hasStarted
                          THEN Resolve(blobPromise, "placeholder")
                          ELSE blobPromise

\* the timer of utterance.onend fires
EndTimerFires ==
    /\ endTimer = "armed"
    /\ endTimer' = "fired"
    /\ TimerBody
    /\ UNCHANGED << hasStarted, chunks, blobUtt, safetyTimer, contextOpen >>
    /\ OnlyBlob

\* the safety timeout fires, lines 566-572
SafetyTimeout ==
    /\ safetyTimer = "armed"
    /\ safetyTimer' = "fired"
    /\ TimerBody
    /\ UNCHANGED << hasStarted, chunks, blobUtt, endTimer, contextOpen >>
    /\ OnlyBlob

\* mediaRecorder.ondataavailable with event.data.size = size, lines 504-508
RecorderData(size) ==
    /\ recEvents = "data"
    /\ recEvents' = "stop"
    /\ chunks' = IF size > 0 THEN 1 ELSE chunks
    /\ UNCHANGED << blobPromise, recorder, hasStarted, blobUtt, endTimer,
                    safetyTimer, contextOpen >>
    /\ OnlyBlob

\* mediaRecorder.onstop, lines 510-519
RecorderStop ==
    /\ recEvents = "stop"
    /\ recEvents' = "none"
    /\ contextOpen' = FALSE
    /\ blobPromise' = Resolve(blobPromise,
                              IF chunks > 0 THEN "audio" ELSE "placeholder")
    /\ UNCHANGED << recorder, hasStarted, chunks, blobUtt, endTimer,
                    safetyTimer >>
    /\ OnlyBlob

\* mediaRecorder.onerror, lines 521-524: the recording fails
RecorderError ==
    /\ recorder = "recording"
    /\ recorder' = "inactive"
    /\ recEvents' = "data"
    /\ contextOpen' = FALSE
    /\ blobPromise' = Resolve(blobPromise, "placeholder")
    /\ UNCHANGED << hasStarted, chunks, blobUtt, endTimer, safetyTimer >>
    /\ OnlyBlob

BlobNext ==
    \/ \E env \in {"ok", "noRecorder", "throws"} : BlobCreate(env)
    \/ \E startOk \in BOOLEAN : UttStart(startOk)
    \/ UttEnd
    \/ UttError
    \/ EndTimerFires
    \/ SafetyTimeout
    \/ \E size \in {0, 1} : RecorderData(size)
    \/ RecorderStop
    \/ RecorderError

\* timers fire and a stopped recorder delivers its events
BlobFairness ==
    /\ WF_vars(EndTimerFires)
    /\ WF_vars(SafetyTimeout)
    /\ WF_vars(\E size \in {0, 1} : RecorderData(size))
    /\ WF_vars(RecorderStop)

BlobSpec == Init /\ [][BlobNext]_vars /\ BlobFairness

TypeOK ==
    /\ pc \in {"idle", "loop", "responded", "phLoop", "phDone", "sized"}
    /\ i \in 0 .. numSamples
    /\ stored \in Int16Min .. Int16Max

\* ----------------------------------------------------------------- claims
\* the request was parsed into a body
Parsed == body.text.kind \in {"undefined", "number", "string"}

\* generateAudioWAV has returned and POST has answered with the container
Served == pc = "responded" /\ response.status = 200

\* generateAudioWAV is running or has returned
Synthesizing == pc = "loop" \/ Served

\* C1: when generateAudioWAV or createPlaceholderAudioFile has returned, the
\* u32 at offset 4 is the byte length minus 8, the u32 at offset 40 is twice
\* the number of samples written, and the byte length is 44 plus twice the
\* number of samples written.
C1_HeaderMatchesBytes ==
    (Served \/ pc = "phDone") =>
        /\ buffer.chunkSize = buffer.byteLength - 8
        /\ buffer.subchunk2Size = 2 * Cardinality(offsets)
        /\ buffer.byteLength = HeaderSize + 2 * Cardinality(offsets)
        /\ Cardinality(offsets) = writes

C1_Witness == Served /\ writes > sampleRate * MinDuration

\* C2: the duration computed by the server synthesizer is an integer number
\* of seconds and at least 2, for every accepted text and clamped rate.
C2_DurationAtLeastTwo ==
    Synthesizing => duration \in Nat /\ duration >= 2

C2_Witness == Synthesizing /\ settings.rate = 1 /\ WordCount(text) = 1 /\ duration > 2

\* C3: the loop writes one sample at each offset 44 + 2i, i in [0, numSamples),
\* none skipped or repeated, numSamples = sampleRate x duration, and the
\* container is 44 + 2 x sampleRate x duration bytes; "Hello world" at rate 1
\* has duration 2, which at 44100 Hz is 88200 samples and 176444 bytes.
C3_ExactSampleCount ==
    /\ Synthesizing =>
          /\ writes = i
          /\ offsets = { HeaderSize + 2 * j : j \in 0 .. i - 1 }
          /\ Cardinality(offsets) = writes
    /\ Served =>
          /\ writes = sampleRate * duration
          /\ buffer.byteLength = HeaderSize + 2 * sampleRate * duration
          /\ response.contentLength = buffer.byteLength
    /\ (Served /\ text = HelloWorld /\ settings.rate = 10) =>
          /\ duration = 2
          /\ SourceSampleRate * duration = 88200
          /\ HeaderSize + 2 * SourceSampleRate * duration = 176444

C3_Witness ==
    /\ Served
    /\ text = HelloWorld
    /\ settings = [rate |-> 10, pitch |-> 10, volume |-> 10]
    /\ writes = sampleRate * 2

\* C4: every value the synthesis loop hands to setInt16 lies in
\* [-32768, 32767], so the stored 16-bit value is that value and never a
\* wrapped one.
C4_SampleInRange ==
    Synthesizing =>
        /\ intSample \in Int16Min .. Int16Max
        /\ stored = intSample

C4_Witness ==
    /\ pc = "loop"
    /\ branch = "consonant"
    /\ settings = [rate |-> 100, pitch |-> 20, volume |-> 10]
    /\ intSample > 16384

\* the text of the body is missing, not a string, empty after trimming, or
\* longer than 5000 characters
InvalidText(t) ==
    \/ t.kind # "string"
    \/ \A k \in 1 .. Len(t.str) : IsWhiteSpace(t.str[k].c)
    \/ JsLength(t.str) > MaxTextLength

\* C5: a request with an invalid text is answered with status 400 and
\* generateAudioWAV is never invoked for it: no buffer, no sample.
C5_InvalidRejectedBeforeSynthesis ==
    (Parsed /\ InvalidText(body.text)) =>
        /\ pc = "responded"
        /\ response.status = 400
        /\ calls = 0
        /\ buffer = NoBuffer
        /\ writes = 0

C5_Witness ==
    /\ Parsed
    /\ body.text.kind = "string"
    /\ JsLength(body.text.str) > MaxTextLength
    /\ response.status = 400
    /\ calls = 0

\* the text is a string with at least one non-whitespace character
HasNonWhitespace(t) ==
    /\ t.kind = "string"
    /\ \E k \in 1 .. Len(t.str) : ~IsWhiteSpace(t.str[k].c)

\* the request is being synthesized or was answered with the container
Accepted ==
    /\ pc \in {"loop", "responded"}
    /\ calls = 1
    /\ pc = "responded" => response.status = 200

\* C6 as stated: a request whose text has a non-whitespace character and whose
\* trimmed length is at most 5000 is accepted and synthesized.
C6_TrimmedBoundAccepted ==
    (Parsed /\ HasNonWhitespace(body.text)
            /\ JsLength(Trim(body.text.str)) <= MaxTextLength) => Accepted

\* C6 amended: the 5000-character bound is applied to the text as received,
\* before trimming: a request whose text has a non-whitespace character and
\* whose untrimmed length is at most 5000 is accepted and synthesized.
C6_RawBoundAccepted ==
    (Parsed /\ HasNonWhitespace(body.text)
            /\ JsLength(body.text.str) <= MaxTextLength) => Accepted

C6_Witness ==
    /\ Served
    /\ JsLength(body.text.str) = MaxTextLength
    /\ text = body.text.str

\* the value of an optional numeric member is inside lo .. hi
InRange(member, lo, hi) == member # << >> /\ member[1] \in lo .. hi

\* C7: out-of-range rate, pitch or volume never fail a request with a valid
\* text; the synthesizer sees rate in [0.1, 10], pitch in [0, 2] and volume in
\* [0, 1]; in-range values pass unchanged and omitted ones default to 1.
C7_ParametersClamped ==
    /\ (Parsed /\ ~InvalidText(body.text)) => Accepted
    /\ Synthesizing =>
          /\ settings.rate \in 1 .. 100
          /\ settings.pitch \in 0 .. 20
          /\ settings.volume \in 0 .. 10
          /\ InRange(body.rate, 1, 100) => settings.rate = body.rate[1]
          /\ InRange(body.pitch, 0, 20) => settings.pitch = body.pitch[1]
          /\ InRange(body.volume, 0, 10) => settings.volume = body.volume[1]
          /\ body.rate = << >> => settings.rate = 10
          /\ body.pitch = << >> => settings.pitch = 10
          /\ body.volume = << >> => settings.volume = 10

C7_Witness ==
    /\ Served
    /\ body.rate = << 500 >> /\ body.pitch = << 50 >> /\ body.volume = << 30 >>
    /\ settings = [rate |-> 100, pitch |-> 20, volume |-> 10]

\* the words of a text: the maximal runs of non-whitespace characters
Words(t) ==
    { k \in 1 .. Len(t) :
        /\ ~IsWhiteSpace(t[k].c)
        /\ k = 1 \/ IsWhiteSpace(t[k - 1].c) }

C9_ClientDurationEqualsServer ==
    pc \in {"phLoop", "phDone"} => duration = Duration(text, settings.rate)

\* the character the last iteration of the synthesis loop was mapped to
LastChar == CharCodeAt(text, charIndex)

\* C10 as stated: a sample whose mapped character is a space or any other
\* whitespace character is exactly 0.
C10_WhitespaceIsSilent ==
    (Synthesizing /\ writes > 0 /\ IsWhiteSpace(LastChar)) => intSample = 0

\* C10 amended: a sample whose mapped character is the space character U+0020
\* is exactly 0 whatever the rate, pitch and volume, and no sine or noise term
\* contributes to it; any other whitespace character is synthesized by the
\* consonant/other arm.
C10_SpaceIsSilent ==
    /\ [](/\ (Synthesizing /\ writes > 0 /\ LastChar = 32) =>
               /\ branch = "space"
               /\ intSample = 0
               /\ stored = 0
          /\ (Synthesizing /\ writes > 0 /\ IsWhiteSpace(LastChar) /\ LastChar # 32) =>
               branch = "consonant")
    /\ [][(pc = "loop" /\ pc' = "loop" /\ branch' = "space")
              => randomCalls' = randomCalls]_vars

C10_Witness ==
    /\ pc = "loop"
    /\ writes > 0
    /\ LastChar = 32
    /\ settings = [rate |-> 100, pitch |-> 20, volume |-> 10]
    /\ Envelope(i - 1, duration) = << 1, 1 >>
    /\ intSample = 0

\* the text is made of vowels and spaces only
VowelOnly(t) == \A k \in 1 .. Len(t) : t[k].c \in Vowels \cup {32}

\* one iteration of the synthesis loop has just run
LoopIteration == pc = "loop" /\ pc' = "loop" /\ i' = i + 1

\* C11: a synthesis of a text made only of vowels and spaces reads no random
\* value, and each of its samples is the same for every state the random
\* generator can be in, so two syntheses of the same request give the same
\* container; the random source is read only for a sample whose mapped
\* character is neither a space nor a vowel.
C11_VowelPathDeterministic ==
    /\ []((Synthesizing /\ VowelOnly(text)) => randomCalls = 0)
    /\ [][(LoopIteration /\ branch' \in {"space", "vowel"}) =>
              /\ randomCalls' = randomCalls
              /\ rng' = rng
              /\ \A s \in 0 .. RandomLevels - 1 :
                    intSample' = SampleValue(text, settings, duration, numSamples, i, s)]_vars
    /\ [][(LoopIteration /\ (randomCalls' # randomCalls \/ rng' # rng)) =>
              branch' = "consonant"]_vars

C11_Witness ==
    /\ pc = "loop"
    /\ served = 1
    /\ rng # seed
    /\ VowelOnly(text)
    /\ branch = "vowel"
    /\ intSample # 0
    /\ randomCalls = 0

\* time < fadeTime and time > duration - fadeTime for sample index k
InFadeIn(k) ==
    k * FadeTime(duration)[2] < FadeTime(duration)[1] * sampleRate

InFadeOut(k) ==
    k * FadeTime(duration)[2] >
        (duration * FadeTime(duration)[2] - FadeTime(duration)[1]) * sampleRate

\* the rational a is smaller than the rational b
Less(a, b) == a[1] * b[2] < b[1] * a[2]

Int32Max == 2 * (32768 * 32768 - 1) + 1

\* a text accepted by POST has at most MaxWords words
WordCountBounded ==
    (pc = "loop") => /\ JsLength(text) <= MaxTextLength
                     /\ 2 * wordCount <= JsLength(text) + 1
                     /\ wordCount <= MaxWords

\* C13: for every word count an accepted text can have and every clamped
\* rate, at the sample rate 44100, the duration, the sample count, the data
\* size and the file size less 8 are at most 2^31 - 1, hence below 2^32, and
\* the header fields at offsets 4 and 40 hold exactly fileSize - 8 and
\* dataSize.
C13_SizesFitUint32 ==
    (pc = "sized") =>
        /\ settings.rate >= 1
        /\ duration >= MinDuration
        /\ duration <= (Int32Max - HeaderSize) \div (SourceSampleRate * 2)
        /\ numSamples = SourceSampleRate * duration
        /\ numSamples <= Int32Max
        /\ buffer.subchunk2Size = 2 * numSamples
        /\ buffer.subchunk2Size <= Int32Max
        /\ buffer.byteLength = HeaderSize + 2 * numSamples
        /\ buffer.chunkSize = buffer.byteLength - 8
        /\ buffer.chunkSize <= Int32Max

C13_Witness ==
    /\ pc = "sized"
    /\ wordCount = MaxWords
    /\ settings.rate = 1
    /\ duration = 9678
    /\ buffer.chunkSize = 853599636

\* the state of a generator that started in state s0 after k draws
RECURSIVE RandomAfter(_, _)
RandomAfter(s0, k) == IF k = 0 THEN s0 ELSE RandomAfter(RandomNext(s0), k - 1)

\* C14: the noise values a synthesis call draws are those of a source
\* started afresh for the call: the generator state the loop reads depends
\* on the draws of this call alone, whatever other requests the process has
\* served before it.
C14_NoiseIndependentOfOtherRequests ==
    (pc = "loop") => rng = RandomAfter(seed, randomCalls)

\* C15: for every sample index the loop runs and every text it is given,
\* charIndex lies in 0 .. text.length - 1, charIndex never decreases from one
\* iteration to the next, and when numSamples >= text.length the finished
\* loop has used every index of the text.
C15_CharIndexInText ==
    /\ []((pc = "loop" /\ writes > 0) =>
            /\ 0 <= charIndex
            /\ charIndex < JsLength(text)
            /\ mapped \subseteq 0 .. JsLength(text) - 1)
    /\ []((pc = "loop" /\ i = numSamples /\ numSamples >= JsLength(text)) =>
            mapped = 0 .. JsLength(text) - 1)
    /\ [][(LoopIteration /\ writes > 0) => charIndex' >= charIndex]_vars

C15_Witness ==
    /\ pc = "loop"
    /\ i = numSamples
    /\ JsLength(text) > 1
    /\ numSamples >= JsLength(text)
    /\ charIndex = JsLength(text) - 1
    /\ mapped = 0 .. JsLength(text) - 1

\* C16: whatever speak, pause, resume and stop calls and utterance events
\* have happened, late events of replaced or cancelled utterances included,
\* isPaused is never true while isPlaying is false: the flags are idle,
\* playing or playing-and-paused, and getState().isIdle is true exactly when
\* they are idle.
C16_PausedOnlyWhilePlaying ==
    /\ isPaused => isPlaying
    /\ << isPlaying, isPaused >> \in
          { << FALSE, FALSE >>, << TRUE, FALSE >>, << TRUE, TRUE >> }
    /\ getState.isIdle <=> (<< isPlaying, isPaused >> = << FALSE, FALSE >>)

\* a paused manager whose current utterance replaced one that has not ended
C16_Witness ==
    /\ isPlaying /\ isPaused
    /\ ~getState.isIdle
    /\ utterance = 2
    /\ uttState[1] = "started"
    /\ uttState[2] = "started"

\* the promise of createClientSideAudioBlob is always eventually resolved
\* with the recorded audio or the placeholder file, and is never rejected
BlobAlwaysDelivered ==
    /\ [](blobPromise # "rejected")
    /\ (blobPromise = "pending") ~> (blobPromise \in {"audio", "placeholder"})

\* the safety timeout stops a recording that is running when it fires
TimeoutStopsRunningRecording ==
    [][(safetyTimer = "armed" /\ safetyTimer' = "fired") =>
           recorder' # "recording"]_vars

\* C17: the promise of createClientSideAudioBlob is never rejected and is
\* always eventually resolved with the recorded audio or the placeholder
\* file, and once the safety timeout has fired no recording is running,
\* whatever the order of the utterance, recorder and timer events.
C17_DeliveredAndRecordingBounded ==
    /\ [](blobPromise # "rejected")
    /\ [](safetyTimer = "fired" => recorder # "recording")
    /\ (blobPromise = "pending") ~> (blobPromise \in {"audio", "placeholder"})

====
